---- MODULE Spec2Model ----
(***************************************************************************)
(* egui_spine: the rendering bridge between the Spine animation engine and *)
(* wgpu.  The model follows one Spine widget instance through its life:    *)
(* init_wgpu_spine_context, Spine::new (the engine's create-texture        *)
(* callback stores one Loading slot per atlas page), Widget::ui (advance   *)
(* the controller, register a paint payload), RendererCallback::paint (one *)
(* step per iteration of its loop over the meshes), the host dropping the  *)
(* payload, and the host dropping the widget (the engine's dispose         *)
(* callback runs when the last reference to the controller goes away).     *)
(* Frames repeat without bound.  A panic ends the program: no action is    *)
(* enabled afterwards.                                                     *)
(***************************************************************************)
EXTENDS Integers, Sequences, FiniteSets, TLC

\* ---------------------------------------------------------------- bounds
\* Atlas pages (attachment handles) of the widget's atlas.
NumHandles == 1
\* Renderables the engine returns for one frame, at most.
MaxBatches == 2
\* A renderable holds q quads, q in 0..MaxQuads: 4q vertices, 6q indices.
MaxQuads == 2
\* The animations of the skeleton file.
NumAnimations == 2
\* The host's frame delta lies in -MaxDelta..MaxDelta half-milliseconds.
MaxDelta == 4

\* ------------------------------------------------------ program constants
\* size_of::<Vertex>(): 2 + 2 + 4 + 4 floats of 4 bytes.
VertexSize == 48
\* size_of::<u16>()
IndexSize == 2
\* wgpu::COPY_BUFFER_ALIGNMENT
COPY_BUFFER_ALIGNMENT == 4
\* The 0.001 of `stable_dt.max(0.001)`, in half-milliseconds.
MinDelta == 2

Handles == 1..NumHandles
\* Mesh::attachment == None
None == 0
BlendModes == {"Normal", "Additive", "Multiply", "Screen"}

\* ------------------------------------------------- Blend-State Resolver
BlendComponent(op, src, dst) ==
    [operation |-> op, src_factor |-> src, dst_factor |-> dst]

into_blend_state_no_pma(mode, premultiplied_alpha) ==
    CASE mode = "Additive" ->
           [alpha |-> BlendComponent("Add", "One", "One"),
            color |-> BlendComponent("Add", "SrcAlpha", "One")]
      [] mode = "Multiply" ->
           [alpha |-> BlendComponent("Add", "OneMinusSrcAlpha", "OneMinusSrcAlpha"),
            color |-> BlendComponent("Add", "Dst", "OneMinusSrcAlpha")]
      [] mode = "Normal" ->
           [alpha |-> BlendComponent("Add", "One", "OneMinusSrcAlpha"),
            color |-> BlendComponent("Add", "SrcAlpha", "OneMinusSrcAlpha")]
      [] mode = "Screen" ->
           [alpha |-> BlendComponent("Add", "OneMinusSrc", "OneMinusSrcAlpha"),
            color |-> BlendComponent("Add", "One", "OneMinusSrcAlpha")]

into_blend_state(mode, premultiplied_alpha) ==
    CASE mode = "Additive" ->
           IF ~premultiplied_alpha
           THEN [alpha |-> BlendComponent("Add", "One", "One"),
                 color |-> BlendComponent("Add", "SrcAlpha", "One")]
           ELSE [alpha |-> BlendComponent("Add", "One", "One"),
                 color |-> BlendComponent("Add", "One", "One")]
      [] mode = "Multiply" ->
           IF ~premultiplied_alpha
           THEN [alpha |-> BlendComponent("Add", "OneMinusSrcAlpha", "OneMinusSrcAlpha"),
                 color |-> BlendComponent("Add", "Dst", "OneMinusSrcAlpha")]
           ELSE [alpha |-> BlendComponent("Add", "OneMinusSrcAlpha", "OneMinusSrcAlpha"),
                 color |-> BlendComponent("Add", "Dst", "OneMinusSrcAlpha")]
      [] mode = "Normal" ->
           IF ~premultiplied_alpha
           THEN [alpha |-> BlendComponent("Add", "One", "OneMinusSrcAlpha"),
                 color |-> BlendComponent("Add", "SrcAlpha", "OneMinusSrcAlpha")]
           ELSE [alpha |-> BlendComponent("Add", "One", "OneMinusSrcAlpha"),
                 color |-> BlendComponent("Add", "One", "OneMinusSrcAlpha")]
      [] mode = "Screen" ->
           IF ~premultiplied_alpha
           THEN [alpha |-> BlendComponent("Add", "OneMinusSrc", "OneMinusSrcAlpha"),
                 color |-> BlendComponent("Add", "One", "OneMinusSrcAlpha")]
           ELSE [alpha |-> BlendComponent("Add", "OneMinusSrc", "OneMinusSrcAlpha"),
                 color |-> BlendComponent("Add", "One", "OneMinusSrcAlpha")]

\* The blend state of a pipeline that was never created.
NoBlend == [alpha |-> BlendComponent("-", "-", "-"),
            color |-> BlendComponent("-", "-", "-")]

\* ------------------------------------------------------ Mesh Batch Adapter
\* What the engine can return as one SkeletonCombinedRenderable: the
\* vertices of q quads with the 6q indices of their triangles or with no
\* triangles at all, a blend mode, the controller's premultiplied_alpha
\* setting and the renderer object of one of the atlas pages (or none).
Renderables(premultiplied_alpha) ==
    { [nv |-> 4 * g[1], ni |-> 6 * g[2], blend_mode |-> m,
       premultiplied_alpha |-> premultiplied_alpha, attachment |-> a] :
      g \in { c \in (0..MaxQuads) \X (0..MaxQuads) : c[2] \in {0, c[1]} },
      m \in BlendModes, a \in Handles \cup {None} }

\* The k-th item of self.inner.iter() is the k-th renderable of the Vec.
iter_index_rev(k, len) == len + 1 - k

iter_index(k, len) == k

\* The Mesh built from a renderable: one Vertex per engine vertex, the index
\* slice borrowed, the other fields copied.
Mesh(renderable) ==
    [nv |-> renderable.nv,
     ni |-> renderable.ni,
     blend_mode |-> renderable.blend_mode,
     premultiplied_alpha |-> renderable.premultiplied_alpha,
     attachment |-> renderable.attachment,
     was_attachment_borrowed |-> FALSE]

NoMesh == [nv |-> 0, ni |-> 0, blend_mode |-> "Normal",
           premultiplied_alpha |-> FALSE, attachment |-> None,
           was_attachment_borrowed |-> FALSE]

\* ------------------------------------------------------------ WgpuTexture
NoBuffer == [gen |-> 0, size |-> 0]

Loading == [state |-> "Loading", pipeline |-> NoBlend, vertex_buffer |-> NoBuffer,
            index_buffer |-> NoBuffer, texture_bind_group |-> 0]

Loaded(pipeline, vertex_buffer, index_buffer, texture_bind_group) ==
    [state |-> "Loaded", pipeline |-> pipeline, vertex_buffer |-> vertex_buffer,
     index_buffer |-> index_buffer, texture_bind_group |-> texture_bind_group]

\* The page's renderer object before create-texture and after dispose.
Absent == [state |-> "Absent", pipeline |-> NoBlend, vertex_buffer |-> NoBuffer,
           index_buffer |-> NoBuffer, texture_bind_group |-> 0]

Disposed == [state |-> "Disposed", pipeline |-> NoBlend, vertex_buffer |-> NoBuffer,
             index_buffer |-> NoBuffer, texture_bind_group |-> 0]


\* ------------------------------------------------------------------ state
VARIABLES
    resources,            \* how many WgpuResources callback_resources holds
    surface_srgb,         \* WgpuResources::surface_format.is_srgb()
    spine,                \* the widget: "none", "constructing" (inside
                          \* Spine::new), "live", "failed", "dropped"
    new_result,           \* the animation asked of Spine::new and what it
                          \* returned
    pma,                  \* SkeletonControllerSettings::premultiplied_alpha
    strong,               \* strong count of Spine::controller's Arc
    slots,                \* handle -> WgpuTexture in the page's renderer object
    disposes,             \* handle -> dispose-texture callback calls
    payload,              \* the RendererCallback: "none", "registered",
                          \* "painting", "painted"
    ui_dt,                \* the host's stable_dt and the step given to
                          \* controller.update by the ui call that just ran
    len,                  \* self.meshes.inner.len()
    pos,                  \* how many items the loop of paint has taken
    draws,                \* the meshes drawn in this render pass (by their
                          \* place in inner), in the order of the draw calls
    uses,                 \* handle -> the draws of this render pass that
                          \* bound the handle's vertex and index buffers
    uploaded,             \* handle -> the mesh whose vertices (v) and indices
                          \* (i) the queue writes last for this render pass
    last,                 \* what the last iteration of the loop did
    allocs,               \* handle -> create_buffer calls
    decodes,              \* handle -> create_texture_bind_group calls
    pipelines,            \* handle -> create_render_pipeline calls
    clock,                \* controller.update calls so far, modulo 2: the
                          \* controller's time moves exactly when it flips
    panicked              \* "none", or the panic that ended the program

vars == <<resources, surface_srgb, spine, new_result, pma, strong, slots,
          disposes, payload, ui_dt, len, pos, draws, uses, uploaded, last,
          allocs, decodes, pipelines, clock, panicked>>

\* kind: "empty" and "no_attachment" are the two `continue`s, "drawn" an
\* iteration that reached draw_indexed, "panic" one that panicked.  format
\* and premultiply describe the texture made by create_texture_bind_group.
NoLast == [kind |-> "none", src |-> 0, mesh |-> NoMesh, blend_state |-> NoBlend,
           deref |-> FALSE, count |-> 0, created |-> FALSE,
           vwrite |-> "none", iwrite |-> "none", vneed |-> 0, ineed |-> 0,
           format |-> "none", premultiply |-> FALSE]

\* No ui call has just run.
NoDt == [host |-> 0, dt |-> 0]

NoId == [kind |-> "none", index |-> 0, name |-> ""]

NoResult == [status |-> "none", id |-> NoId, what |-> "", name |-> ""]

\* Nothing of this render pass is in the handle's buffers.
NoUpload == [v |-> 0, i |-> 0]

Init ==
    /\ resources = 0
    /\ surface_srgb = FALSE
    /\ spine = "none"
    /\ new_result = NoResult
    /\ pma = FALSE
    /\ strong = 0
    /\ slots = [h \in Handles |-> Absent]
    /\ disposes = [h \in Handles |-> 0]
    /\ payload = "none"
    /\ ui_dt = NoDt
    /\ len = 0
    /\ pos = 0
    /\ draws = <<>>
    /\ uses = [h \in Handles |-> <<>>]
    /\ uploaded = [h \in Handles |-> NoUpload]
    /\ last = NoLast
    /\ allocs = [h \in Handles |-> 0]
    /\ decodes = [h \in Handles |-> 0]
    /\ pipelines = [h \in Handles |-> 0]
    /\ clock = 0
    /\ panicked = "none"


\* ------------------------------------------------ RendererCallback::paint
\* `if mesh.vertices.is_empty() { continue; }`
is_empty_never(nv) == FALSE

is_empty(nv) == nv = 0

vertex_buffer_size(nv) == nv * VertexSize

padded_index_buffer_size(indices_len) ==
    LET padded_len == IF indices_len % COPY_BUFFER_ALIGNMENT = 0
                      THEN indices_len
                      ELSE indices_len + 1
    IN  padded_len * IndexSize

\* `if let WgpuTexture::Loading { .. } = spine_texture`
NeedsCreate_always(slot) ==
    slot.state \in {"Loading", "Loaded"} /\ slot.texture_bind_group < 2

NeedsCreate(slot) == slot.state = "Loading"

\* `0..indices_len as u32` of draw_indexed
draw_range_padded(indices_len) == padded_index_buffer_size(indices_len) \div IndexSize

draw_range(indices_len) == indices_len

\* nonzero(val) panics on zero.
nonzero_ok(val) == val # 0

\* Queue::write_buffer_with(buffer, 0, size) accepts a write that fits the
\* buffer and whose size is a multiple of COPY_BUFFER_ALIGNMENT.
write_accepted(buffer, size) ==
    /\ size % COPY_BUFFER_ALIGNMENT = 0
    /\ size <= buffer.size

\* A rejected write raises a validation error: wgpu hands it to the device's
\* error handler, which either panics (the default) or returns, and then the
\* call yields no view and nothing is copied.
InvalidOutcomes == {"panic", "no_view"}

\* One iteration of the loop for a mesh with vertices and an attachment:
\* lines 139-209.  slot is the page's WgpuTexture, gen numbers the resources
\* created for the handle, decode_ok is whether the image reads and decodes,
\* on_invalid is what the error handler does with a validation error.
paint_mesh(slot, mesh, blend_state, gen, decode_ok, on_invalid) ==
    LET vsz == vertex_buffer_size(mesh.nv)
        isz == padded_index_buffer_size(mesh.ni)
        create == NeedsCreate(slot)
        materialized == Loaded(blend_state, [gen |-> gen, size |-> vsz],
                               [gen |-> gen, size |-> isz], gen)
        slot1 == IF create /\ decode_ok THEN materialized ELSE slot
        p1 == IF create /\ ~decode_ok THEN "decode"
              ELSE IF slot1.state # "Loaded" THEN "unreachable"
              ELSE "none"
        vacc == write_accepted(slot1.vertex_buffer, vsz)
        p2 == IF p1 # "none" THEN p1
              ELSE IF ~nonzero_ok(vsz) THEN "nonzero"
              ELSE IF ~vacc /\ on_invalid = "panic" THEN "validation"
              ELSE "none"
        iacc == write_accepted(slot1.index_buffer, isz)
        p3 == IF p2 # "none" THEN p2
              ELSE IF ~nonzero_ok(isz) THEN "nonzero"
              ELSE IF ~iacc /\ on_invalid = "panic" THEN "validation"
              ELSE "none"
    IN  [slot |-> slot1,
         created |-> create,
         vwrite |-> IF p1 # "none" \/ ~nonzero_ok(vsz) THEN "none"
                    ELSE IF vacc THEN "written" ELSE "rejected",
         iwrite |-> IF p2 # "none" \/ ~nonzero_ok(isz) THEN "none"
                    ELSE IF iacc THEN "written" ELSE "rejected",
         vneed |-> vsz,
         ineed |-> isz,
         panic |-> p3]

\* Mesh::renderer_object: panics when the mesh's attachment was borrowed
\* before, marks it borrowed, and hands out the page's renderer object.
renderer_object(mesh) ==
    [panic |-> mesh.was_attachment_borrowed,
     object |-> mesh.attachment,
     mesh |-> [mesh EXCEPT !.was_attachment_borrowed = TRUE]]

\* create_texture_bind_group: the pass over the pixels that converts
\* premultiplied sRGB to premultiplied linear runs under this condition,
converts_pixels(surface_is_srgb, premultiplied_alpha) ==
    surface_is_srgb /\ premultiplied_alpha

\* and this is the format of the texture it creates.
texture_format_premultiplied(surface_is_srgb, premultiplied_alpha) ==
    IF surface_is_srgb /\ premultiplied_alpha THEN "Rgba8UnormSrgb" ELSE "Rgba8Unorm"

texture_format(surface_is_srgb, premultiplied_alpha) ==
    IF surface_is_srgb THEN "Rgba8UnormSrgb" ELSE "Rgba8Unorm"


\* ---------------------------------------------------------------- actions
Running == panicked = "none"

\* The engine's dispose-texture callback, for every page of the atlas that
\* got a renderer object from the create-texture callback.
dispose_all ==
    [h \in Handles |-> IF slots[h].state = "Absent" THEN Absent ELSE Disposed]

\* Dropping one Arc<SkeletonController>: the last one drops the controller,
\* the skeleton data and the atlas, whose pages are disposed.
release_any(count, s) == dispose_all

release(count, s) == IF count - 1 = 0 THEN dispose_all ELSE s

\* The calls of the dispose-texture callback that such a drop adds.
dispose_calls(count, d) ==
    IF count - 1 = 0
    THEN [h \in Handles |-> IF slots[h].state = "Absent" THEN d[h] ELSE d[h] + 1]
    ELSE d

\* Arc::clone adds an owner, dropping an Arc takes one away.
Arc_clone(count) == count + 1

Arc_drop_leak(count) == count

Arc_drop(count) == count - 1

\* callback_resources is a map keyed by type: insert replaces the entry of
\* the type, so the map holds one WgpuResources afterwards.
insert_push(count) == IF count < 2 THEN count + 1 ELSE count

insert(count) == 1

\* init_wgpu_spine_context: registers the engine callbacks and inserts the
\* WgpuResources into the callback resources (replacing an earlier one).
\* Every call reads the same render_state.target_format.  A widget loaded
\* before the first call has pages without renderer objects; the host is
\* taken not to call init after that.
InitWgpu ==
    /\ Running
    /\ payload # "painting"
    /\ spine = "none" \/ (resources > 0 /\ spine # "constructing")
    /\ resources' = insert(resources)
    /\ IF resources = 0
       THEN \E srgb \in BOOLEAN : surface_srgb' = srgb
       ELSE UNCHANGED surface_srgb
    /\ UNCHANGED <<spine, new_result, pma, strong, slots, disposes, payload,
                   ui_dt, len, pos, draws, uses, uploaded, last, allocs,
                   decodes, pipelines, clock, panicked>>

\* usize::to_string
Digits == <<"0", "1", "2", "3", "4", "5", "6", "7", "8", "9">>

RECURSIVE to_string(_)
to_string(n) ==
    IF n < 10
    THEN Digits[n + 1]
    ELSE to_string(n \div 10) \o Digits[(n % 10) + 1]

\* controller.skeleton.data().animations(): the animations of the skeleton
\* file, in file order.
animations == [k \in 1..NumAnimations |-> "animation" \o to_string(k)]

Index(index) == [kind |-> "Index", index |-> index, name |-> ""]

Name(name) == [kind |-> "Name", index |-> 0, name |-> name]

\* The AnimationId values a host asks for: indices up to one past the end,
\* the names of the skeleton and a name it does not have.
AnimationIds ==
    { Index(i) : i \in 0..NumAnimations }
        \cup { Name(animations[k]) : k \in 1..NumAnimations }
        \cup { Name("missing") }

\* Iterator::nth counts from zero: the place of the item, or None.
nth_wrapping(items, index) == (index % Len(items)) + 1

nth(items, index) == IF index < Len(items) THEN index + 1 ELSE None

\* set_animation_by_name finds the animation of that name, or fails.
find_animation(items, name) ==
    IF \E k \in 1..Len(items) : items[k] = name
    THEN CHOOSE k \in 1..Len(items) : items[k] = name
    ELSE None

\* Spine::new, lines 42-60: loading the atlas runs the create-texture
\* callback (when init registered it) for every page, which stores a Loading
\* slot; the controller is built and has one owner.
SpineNew ==
    /\ Running
    /\ spine = "none"
    /\ \E p \in BOOLEAN : pma' = p
    /\ \E id \in AnimationIds :
         new_result' = [NoResult EXCEPT !.status = "pending", !.id = id]
    /\ spine' = "constructing"
    /\ strong' = 1
    /\ slots' = [h \in Handles |-> IF resources > 0 THEN Loading ELSE Absent]
    /\ UNCHANGED <<resources, surface_srgb, disposes, payload, ui_dt, len, pos,
                   draws, uses, uploaded, last, allocs, decodes, pipelines,
                   clock, panicked>>

\* Spine::new, lines 61-84: the animation is looked up and set, or the error
\* is returned and the controller, the skeleton data and the atlas drop.
SetAnimation ==
    /\ Running
    /\ spine = "constructing"
    /\ LET id == new_result.id
           found == IF id.kind = "Index"
                    THEN nth(animations, id.index)
                    ELSE find_animation(animations, id.name)
       IN  IF found # None
           THEN /\ spine' = "live"
                /\ new_result' = [NoResult EXCEPT !.status = "ok"]
                /\ UNCHANGED <<strong, slots, disposes>>
           ELSE /\ spine' = "failed"
                /\ new_result' =
                       [status |-> "err", id |-> id, what |-> "Animation",
                        name |-> IF id.kind = "Index"
                                 THEN to_string(id.index)
                                 ELSE id.name]
                /\ strong' = Arc_drop(strong)
                /\ slots' = release(strong, slots)
                /\ disposes' = dispose_calls(strong, disposes)
    /\ UNCHANGED <<resources, surface_srgb, pma, payload, ui_dt, len, pos,
                   draws, uses, uploaded, last, allocs, decodes, pipelines,
                   clock, panicked>>

\* Arc::get_mut gives the controller only to a unique owner.
get_mut_unchecked(count) == count <= 2

get_mut(count) == count = 1

\* The values of egui's stable_dt, in units of half a millisecond.
HostDeltas == (0 - MaxDelta)..MaxDelta

\* f32::max
min(self, other) == IF self < other THEN self ELSE other

max(self, other) == IF self > other THEN self ELSE other

\* Widget::ui for &mut Spine.
Ui ==
    /\ Running
    /\ spine = "live"
    /\ payload # "painting"
    /\ IF ~get_mut(strong)
       THEN /\ panicked' = "reentrant"
            /\ UNCHANGED <<resources, surface_srgb, spine, new_result, pma,
                           strong, slots, disposes, payload, ui_dt, len, pos,
                           draws, uses, uploaded, last, allocs, decodes,
                           pipelines, clock>>
       ELSE /\ \E stable_dt \in HostDeltas :
                 ui_dt' = [host |-> stable_dt, dt |-> max(stable_dt, MinDelta)]
            /\ clock' = 1 - clock
            /\ \E n \in 0..MaxBatches : len' = n
            /\ pos' = 0
            /\ strong' = Arc_clone(strong)
            /\ payload' = "registered"
            /\ draws' = <<>>
            /\ uses' = [h \in Handles |-> <<>>]
            /\ uploaded' = [h \in Handles |-> NoUpload]
            /\ last' = NoLast
            /\ UNCHANGED <<resources, surface_srgb, spine, new_result, pma,
                           slots, disposes, allocs, decodes, pipelines,
                           panicked>>

\* paint, up to the loop: the registry lookup and the scene bind group.
PaintBegin ==
    /\ Running
    /\ payload = "registered"
    /\ IF resources = 0
       THEN /\ panicked' = "no_resources"
            /\ UNCHANGED <<payload, ui_dt, pos, draws, uses, uploaded, last>>
       ELSE /\ payload' = "painting"
            /\ ui_dt' = NoDt
            /\ pos' = 0
            /\ draws' = <<>>
            /\ uses' = [h \in Handles |-> <<>>]
            /\ uploaded' = [h \in Handles |-> NoUpload]
            /\ last' = NoLast
            /\ UNCHANGED panicked
    /\ UNCHANGED <<resources, surface_srgb, spine, new_result, pma, strong,
                   slots, disposes, len, allocs, decodes, pipelines, clock>>

\* The image is read only on the creation path, and the error handler is
\* asked only about a rejected write: elsewhere one choice stands for all.
Reaches(renderable) ==
    ~is_empty(renderable.nv) /\ renderable.attachment # None

DecodeOutcomes(renderable, s) ==
    IF Reaches(renderable) /\ NeedsCreate(s[renderable.attachment])
    THEN BOOLEAN
    ELSE {TRUE}

ErrorHandlers(renderable, s, decode_ok) ==
    IF Reaches(renderable)
    THEN LET r == paint_mesh(s[renderable.attachment], Mesh(renderable),
                             NoBlend, 0, decode_ok, "no_view")
         IN  IF "rejected" \in {r.vwrite, r.iwrite}
             THEN InvalidOutcomes
             ELSE {"no_view"}
    ELSE {"no_view"}

\* One iteration of `for mesh in self.meshes.iter()`.
PaintBatch ==
    /\ Running
    /\ payload = "painting"
    /\ pos < len
    /\ pos' = pos + 1
    /\ \E renderable \in Renderables(pma) :
       \E decode_ok \in DecodeOutcomes(renderable, slots) :
       \E on_invalid \in ErrorHandlers(renderable, slots, decode_ok) :
         LET mesh == Mesh(renderable)
             src == iter_index(pos + 1, len)
         IN  IF is_empty(mesh.nv)
             THEN /\ last' = [NoLast EXCEPT !.kind = "empty", !.src = src,
                                            !.mesh = mesh]
                  /\ UNCHANGED <<slots, draws, uses, uploaded, allocs, decodes,
                                 pipelines, panicked>>
             ELSE LET blend_state ==
                          into_blend_state(mesh.blend_mode, mesh.premultiplied_alpha)
                      borrow == renderer_object(mesh)
                      h == borrow.object
                  IN  IF h = None /\ ~borrow.panic
                      THEN /\ last' = [NoLast EXCEPT !.kind = "no_attachment",
                                          !.src = src, !.mesh = mesh,
                                          !.blend_state = blend_state]
                           /\ UNCHANGED <<slots, draws, uses, uploaded, allocs,
                                          decodes, pipelines, panicked>>
                      ELSE LET r == IF borrow.panic
                                    THEN [paint_mesh(Absent, mesh, blend_state,
                                                     0, TRUE, "no_view")
                                          EXCEPT !.slot = slots[h],
                                                 !.created = FALSE,
                                                 !.vwrite = "none",
                                                 !.iwrite = "none",
                                                 !.panic = "borrowed"]
                                    ELSE paint_mesh(slots[h], mesh, blend_state,
                                                    decodes[h] + 1, decode_ok,
                                                    on_invalid)
                               n == IF r.created THEN 1 ELSE 0
                               made == r.created /\ r.slot.state = "Loaded"
                               drawn == r.panic = "none"
                           IN  /\ allocs' = [allocs EXCEPT ![h] = @ + 2 * n]
                               /\ pipelines' = [pipelines EXCEPT ![h] = @ + n]
                               /\ decodes' = [decodes EXCEPT ![h] = @ + n]
                               /\ slots' = [slots EXCEPT ![h] = r.slot]
                               /\ panicked' = r.panic
                               /\ draws' = IF drawn THEN Append(draws, src)
                                           ELSE draws
                               /\ uses' = IF drawn
                                          THEN [uses EXCEPT ![h] = Append(@, src)]
                                          ELSE uses
                               /\ uploaded' =
                                      [uploaded EXCEPT
                                         ![h] = [v |-> IF r.vwrite = "written"
                                                       THEN src ELSE @.v,
                                                 i |-> IF r.iwrite = "written"
                                                       THEN src ELSE @.i]]
                               /\ last' = [kind |-> IF drawn
                                                    THEN "drawn" ELSE "panic",
                                           src |-> src,
                                           mesh |-> mesh,
                                           blend_state |-> blend_state,
                                           deref |-> ~borrow.panic,
                                           count |-> IF drawn
                                                     THEN draw_range(mesh.ni)
                                                     ELSE 0,
                                           created |-> r.created,
                                           vwrite |-> r.vwrite,
                                           iwrite |-> r.iwrite,
                                           vneed |-> r.vneed,
                                           ineed |-> r.ineed,
                                           format |->
                                               IF made
                                               THEN texture_format(surface_srgb,
                                                        mesh.premultiplied_alpha)
                                               ELSE "none",
                                           premultiply |->
                                               made /\ converts_pixels(surface_srgb,
                                                           mesh.premultiplied_alpha)]
    /\ UNCHANGED <<resources, surface_srgb, spine, new_result, pma, strong,
                   disposes, payload, ui_dt, len, clock>>

\* The loop is over and paint returns.
PaintEnd ==
    /\ Running
    /\ payload = "painting"
    /\ pos = len
    /\ payload' = "painted"
    /\ last' = NoLast
    /\ UNCHANGED <<resources, surface_srgb, spine, new_result, pma, strong,
                   slots, disposes, ui_dt, len, pos, draws, uses, uploaded,
                   allocs, decodes, pipelines, clock, panicked>>

\* The host drops the frame's shapes, and the RendererCallback with them:
\* Meshes gives up its Arc<SkeletonController>.
DropPayload ==
    /\ Running
    /\ payload \in {"registered", "painted"}
    /\ payload' = "none"
    /\ strong' = Arc_drop(strong)
    /\ slots' = release(strong, slots)
    /\ disposes' = dispose_calls(strong, disposes)
    /\ ui_dt' = NoDt
    /\ len' = 0
    /\ pos' = 0
    /\ draws' = <<>>
    /\ uses' = [h \in Handles |-> <<>>]
    /\ uploaded' = [h \in Handles |-> NoUpload]
    /\ UNCHANGED <<resources, surface_srgb, spine, new_result, pma, last,
                   allocs, decodes, pipelines, clock, panicked>>

\* The host drops the widget.
DropSpine ==
    /\ Running
    /\ spine = "live"
    /\ payload # "painting"
    /\ spine' = "dropped"
    /\ strong' = Arc_drop(strong)
    /\ slots' = release(strong, slots)
    /\ disposes' = dispose_calls(strong, disposes)
    /\ UNCHANGED <<resources, surface_srgb, new_result, pma, payload, ui_dt,
                   len, pos, draws, uses, uploaded, last, allocs, decodes,
                   pipelines, clock, panicked>>

Next ==
    \/ InitWgpu
    \/ SpineNew
    \/ SetAnimation
    \/ Ui
    \/ PaintBegin
    \/ PaintBatch
    \/ PaintEnd
    \/ DropPayload
    \/ DropSpine

Spec == Init /\ [][Next]_vars

TypeOK ==
    /\ resources \in 0..1
    /\ surface_srgb \in BOOLEAN
    /\ spine \in {"none", "constructing", "live", "failed", "dropped"}
    /\ new_result.status \in {"none", "pending", "ok", "err"}
    /\ pma \in BOOLEAN
    /\ strong \in 0..2
    /\ \A h \in Handles : slots[h].state \in {"Absent", "Loading", "Loaded", "Disposed"}
    /\ \A h \in Handles : disposes[h] \in 0..1
    /\ payload \in {"none", "registered", "painting", "painted"}
    /\ ui_dt.host \in HostDeltas \/ ui_dt = NoDt
    /\ len \in 0..MaxBatches
    /\ pos \in 0..len
    /\ Len(draws) <= pos
    /\ \A h \in Handles : Len(uses[h]) <= Len(draws)
    /\ clock \in 0..1


\* ================================================================ claims
\* The policy table of the specification's section 4.2, written out.
Table42(mode, alpha) ==
    LET C(src, dst) == BlendComponent("Add", src, dst)
    IN  CASE mode = "Additive" /\ ~alpha ->
               [color |-> C("SrcAlpha", "One"), alpha |-> C("One", "One")]
          [] mode = "Additive" /\ alpha ->
               [color |-> C("One", "One"), alpha |-> C("One", "One")]
          [] mode = "Multiply" ->
               [color |-> C("Dst", "OneMinusSrcAlpha"),
                alpha |-> C("OneMinusSrcAlpha", "OneMinusSrcAlpha")]
          [] mode = "Normal" /\ ~alpha ->
               [color |-> C("SrcAlpha", "OneMinusSrcAlpha"),
                alpha |-> C("One", "OneMinusSrcAlpha")]
          [] mode = "Normal" /\ alpha ->
               [color |-> C("One", "OneMinusSrcAlpha"),
                alpha |-> C("One", "OneMinusSrcAlpha")]
          [] mode = "Screen" ->
               [color |-> C("One", "OneMinusSrcAlpha"),
                alpha |-> C("OneMinusSrc", "OneMinusSrcAlpha")]

\* The iteration that just ran resolved a blend state (line 130).
Resolved == last.kind \in {"no_attachment", "drawn", "panic"}

\* The iteration that just ran reached the texture slot (line 134 and on).
Reached == last.kind \in {"drawn", "panic"}

\* C1: for each of the 8 pairs (blend mode, premultiplied_alpha) the blend
\* state resolved for a mesh is the triple pair of the section 4.2 table, with
\* operation Add in both components; no pair is left undefined.
C1_BlendTable ==
    Resolved =>
        /\ last.blend_state =
               Table42(last.mesh.blend_mode, last.mesh.premultiplied_alpha)
        /\ last.blend_state.color.operation = "Add"
        /\ last.blend_state.alpha.operation = "Add"

C1_Witness ==
    /\ last.kind = "drawn"
    /\ last.mesh.blend_mode = "Additive"
    /\ last.mesh.premultiplied_alpha
    /\ last.blend_state.color.src_factor = "One"

\* C2: a failing image read or decode at the first draw of a Loading slot
\* does not abort the frame (the batch is skipped, the slot stays Loading and
\* the other batches are drawn): paint never ends in the panic of the unwrap.
C2_DecodeFailureSkipsBatch == panicked # "decode"

\* C3: every vertex and index upload goes into a cached buffer at least as
\* large as the batch requires (the buffer is grown first when it is not).
C3_UploadFits ==
    (Reached /\ last.vwrite # "none") =>
        LET slot == slots[last.mesh.attachment]
        IN  /\ last.vneed <= slot.vertex_buffer.size
            /\ last.iwrite # "none" => last.ineed <= slot.index_buffer.size

\* C4: Widget::ui called while the payload of an earlier call is alive panics
\* with the re-entrancy violation, before the controller is advanced and
\* before another paint callback is registered.
C4_ReentrantDrawPanics ==
    [][(Ui /\ payload # "none") =>
          /\ panicked' = "reentrant"
          /\ clock' = clock
          /\ payload' = payload
          /\ strong' = strong]_vars

C4_Witness ==
    /\ panicked = "reentrant"
    /\ payload = "registered"
    /\ strong = 2
    /\ clock = 1

\* C5: for one attachment handle, over any number of frames and batches, the
\* creation path runs at most once (one decode, one pipeline, one vertex and
\* one index buffer), and once a non-empty batch has reached the handle the
\* image decode has been invoked exactly once.
C5_CreateOnce ==
    \A h \in Handles :
        /\ decodes[h] <= 1
        /\ pipelines[h] <= 1
        /\ allocs[h] <= 2
        /\ (slots[h].state = "Loaded" \/ (Reached /\ last.mesh.attachment = h))
               => decodes[h] = 1

C5_Witness ==
    /\ clock = 0
    /\ last.kind = "drawn"
    /\ ~last.created
    /\ decodes[last.mesh.attachment] = 1

\* C6: a slot is Loading from the create-texture callback on, becomes Loaded
\* only in the first iteration that reaches it with a non-empty batch, never
\* returns to Loading, and once Loaded keeps its pipeline, bind group and
\* buffers until it is disposed.
C6_SlotLifecycle ==
    [][\A h \in Handles :
          /\ slots[h].state = "Absent" => slots'[h].state \in {"Absent", "Loading"}
          /\ slots'[h].state = "Loading" => slots[h].state \in {"Absent", "Loading"}
          /\ (slots[h].state = "Loading" /\ slots'[h].state # "Loading") =>
                \/ slots'[h].state = "Disposed"
                \/ /\ slots'[h].state = "Loaded"
                   /\ pos' = pos + 1
                   /\ last'.deref
                   /\ last'.created
                   /\ last'.mesh.attachment = h
                   /\ last'.mesh.nv > 0
                   /\ decodes[h] = 0
          /\ slots[h].state = "Loaded" =>
                slots'[h] = slots[h] \/ slots'[h].state = "Disposed"
          /\ slots[h].state = "Disposed" => slots'[h].state = "Disposed"]_vars

C6_Witness ==
    /\ clock = 0
    /\ last.kind = "drawn"
    /\ ~last.created
    /\ slots[last.mesh.attachment].state = "Loaded"
    /\ slots[last.mesh.attachment].pipeline # last.blend_state

\* C7: an iteration over a mesh with zero vertices uploads nothing, binds
\* nothing, draws nothing, does not reach the texture slot and leaves every
\* slot as it was; the loop goes on with the next mesh.
C7_EmptyBatchNoEffect ==
    [][(pos' = pos + 1 /\ last'.mesh.nv = 0) =>
          /\ last'.kind = "empty"
          /\ ~last'.deref
          /\ last'.vwrite = "none"
          /\ last'.iwrite = "none"
          /\ slots' = slots
          /\ draws' = draws
          /\ allocs' = allocs
          /\ decodes' = decodes
          /\ pipelines' = pipelines
          /\ panicked' = "none"]_vars

C7_Witness ==
    /\ last.kind = "empty"
    /\ last.src = 1
    /\ len = 2
    /\ last.mesh.attachment # None
    /\ slots[last.mesh.attachment].state = "Loading"

\* C8: an iteration whose batch needs no more bytes than the vertex and index
\* buffers cached for its handle hold allocates no buffer.
C8_NoReallocation ==
    [][\A h \in Handles :
          ( /\ slots[h].state = "Loaded"
            /\ pos' = pos + 1
            /\ last'.deref
            /\ last'.mesh.attachment = h
            /\ last'.vneed <= slots[h].vertex_buffer.size
            /\ last'.ineed <= slots[h].index_buffer.size )
          => allocs'[h] = allocs[h]]_vars

C8_Witness ==
    /\ clock = 0
    /\ last.kind = "drawn"
    /\ ~last.created
    /\ last.vneed < slots[last.mesh.attachment].vertex_buffer.size
    /\ allocs[last.mesh.attachment] = 2

\* C9: the draw calls of a render pass follow the order of the renderables:
\* the drawn places increase strictly (no batch twice, none out of order), and
\* a batch is drawn in the iteration that takes it.
C9_DrawOrder ==
    /\ \A a, b \in DOMAIN draws : a < b => draws[a] < draws[b]
    /\ \A a \in DOMAIN draws : draws[a] \in 1..pos
    /\ last.kind = "drawn" =>
          /\ last.src = pos
          /\ draws # <<>>
          /\ draws[Len(draws)] = pos

C9_Witness == draws = <<1, 2>> /\ last.kind = "drawn"

\* C10: a draw call requests the batch's own index count, whatever padding
\* the index buffer size got; the quad of 6 indices is drawn with 6.
C10_DrawCount ==
    last.kind = "drawn" =>
        /\ last.count = last.mesh.ni
        /\ last.mesh.ni = 6 => last.count = 6

C10_Witness ==
    /\ last.kind = "drawn"
    /\ last.mesh.nv = 4
    /\ last.mesh.ni = 6
    /\ padded_index_buffer_size(last.mesh.ni) # last.mesh.ni * IndexSize
    /\ last.count = 6

\* C11: the time step handed to controller.update is the larger of the
\* host's frame delta and 0.001 s: a delta of zero or below gives exactly
\* 0.001 s, a delta above 0.001 s passes unchanged, and the step is never
\* zero or negative.
C11_DeltaFloor ==
    payload = "registered" =>
        /\ ui_dt.host <= 0 => ui_dt.dt = MinDelta
        /\ ui_dt.host > MinDelta => ui_dt.dt = ui_dt.host
        /\ ui_dt.dt \in {ui_dt.host, MinDelta}
        /\ ui_dt.dt >= ui_dt.host
        /\ ui_dt.dt >= MinDelta
        /\ ui_dt.dt > 0

\* A draw whose host delta was negative stepped the controller by 0.001 s.
C11_Witness ==
    /\ payload = "registered"
    /\ ui_dt.host < 0
    /\ ui_dt.dt = MinDelta
    /\ clock = 1

\* The decimal text of the small indices, written out.
DecimalText == <<"0", "1", "2", "3", "4", "5", "6", "7", "8", "9">>

\* The animation exists in the skeleton: an index below the animation
\* count, or one of the skeleton's names.
Exists(id) ==
    IF id.kind = "Index"
    THEN id.index < NumAnimations
    ELSE \E k \in 1..NumAnimations : animations[k] = id.name

\* C12: Spine::new asked for an animation that does not exist (an index at
\* or beyond the animation count, or an unknown name) returns an error and
\* constructs no widget; for an index the error is NotFound with what
\* "Animation" and the index as text for its name.
C12_UnknownAnimationFails ==
    [][(spine = "constructing" /\ spine' # "constructing"
            /\ ~Exists(new_result.id)) =>
          /\ spine' = "failed"
          /\ strong' = 0
          /\ new_result'.status = "err"
          /\ new_result.id.kind = "Index" =>
                /\ new_result'.what = "Animation"
                /\ new_result'.name = DecimalText[new_result.id.index + 1]]_vars

\* Spine::new was asked for the index one past the last animation and
\* returned NotFound.
C12_Witness ==
    /\ spine = "failed"
    /\ new_result.status = "err"
    /\ new_result.id = Index(NumAnimations)
    /\ new_result.what = "Animation"
    /\ new_result.name = DecimalText[NumAnimations + 1]
    /\ strong = 0

\* C13: no paint callback dereferences a slot after its dispose has run:
\* while a payload exists it owns a reference to the controller, so no page
\* is disposed before the payload is dropped, and a page is disposed at most
\* once, which is when its slot's resources are released.
C13_NoUseAfterDispose ==
    /\ last.deref => slots[last.mesh.attachment].state \in {"Loading", "Loaded"}
    /\ payload # "none" =>
          /\ strong >= 1
          /\ \A h \in Handles : slots[h].state # "Disposed"
    /\ \A h \in Handles :
          /\ disposes[h] <= 1
          /\ slots[h].state = "Disposed" <=> disposes[h] = 1

\* paint reaches a Loaded slot after the host dropped the widget: the
\* payload is the controller's only owner.
C13_Witness ==
    /\ spine = "dropped"
    /\ payload = "painting"
    /\ strong = 1
    /\ last.deref
    /\ last.kind = "drawn"
    /\ slots[last.mesh.attachment].state = "Loaded"

\* C14: after one or more calls of init_wgpu_spine_context the callback
\* resources hold exactly one WgpuResources; paint only reads it, never
\* replacing or changing it; and a paint that runs before any init fails
\* fast at the registry lookup, before any mesh is touched.
C14_OneRegistry ==
    [][/\ resources' <= 1
       /\ InitWgpu => resources' = 1
       /\ resources = 1 => resources' = 1
       /\ (PaintBegin \/ PaintBatch \/ PaintEnd) =>
             /\ resources' = resources
             /\ surface_srgb' = surface_srgb
       /\ (PaintBegin /\ resources = 0) =>
             /\ panicked' = "no_resources"
             /\ payload' = "registered"
             /\ UNCHANGED <<slots, draws, last, allocs, decodes, pipelines>>]_vars

\* A widget made and drawn without init: paint panicked at the lookup.
C14_Witness ==
    /\ panicked = "no_resources"
    /\ resources = 0
    /\ payload = "registered"
    /\ draws = <<>>
    /\ \A h \in Handles : slots[h].state = "Absent"

\* The last iteration materialized a texture.
Materialized == last.format # "none"

\* C15 as stated: a materialized texture has the sRGB-aware format exactly
\* when the surface format is sRGB and the batch is premultiplied, and the
\* linear unorm format in the three other combinations.
C15_FormatSrgbAndPremultiplied ==
    Materialized =>
        /\ last.format \in {"Rgba8UnormSrgb", "Rgba8Unorm"}
        /\ last.format = "Rgba8UnormSrgb" <=>
              (surface_srgb /\ last.mesh.premultiplied_alpha)

\* C15, amended: a materialized texture has the sRGB-aware format exactly
\* when the surface format is sRGB, whatever the batch's premultiplied flag,
\* and the linear unorm format otherwise; what runs exactly when the surface
\* is sRGB and the batch is premultiplied is the pass that re-premultiplies
\* the pixels.
C15_FormatFollowsSurface ==
    Materialized =>
        /\ last.format \in {"Rgba8UnormSrgb", "Rgba8Unorm"}
        /\ last.format = "Rgba8UnormSrgb" <=> surface_srgb
        /\ last.premultiply <=> (surface_srgb /\ last.mesh.premultiplied_alpha)

\* A texture that is not premultiplied, materialized for an sRGB surface,
\* has the sRGB-aware format.
C15_Witness ==
    /\ Materialized
    /\ surface_srgb
    /\ ~last.mesh.premultiplied_alpha
    /\ last.format = "Rgba8UnormSrgb"
    /\ ~last.premultiply
    /\ slots[last.mesh.attachment].state = "Loaded"

\* C16: for every index count n >= 1 the padded index buffer size computed
\* in paint is a multiple of COPY_BUFFER_ALIGNMENT, is at least 2n bytes and
\* exceeds 2n by less than 4 bytes.
C16_PaddedSizeAligned ==
    (Reached /\ last.mesh.ni >= 1) =>
        /\ last.ineed % COPY_BUFFER_ALIGNMENT = 0
        /\ last.ineed >= IndexSize * last.mesh.ni
        /\ last.ineed - IndexSize * last.mesh.ni < COPY_BUFFER_ALIGNMENT

\* C17: the pipeline bound for a draw call has the blend state resolved
\* from the drawn batch's own blend mode and premultiplied_alpha, also when
\* the handle's pipeline was cached by an earlier batch of another mode.
C17_PipelineOfBatch ==
    last.kind = "drawn" =>
        slots[last.mesh.attachment].pipeline = last.blend_state

\* C18: when two or more batches of one render pass are drawn with the same
\* handle's vertex and index buffers, each of those draws sees its own
\* batch's vertices and indices in the buffers when the pass executes.
C18_OwnGeometry ==
    \A h \in Handles :
        Len(uses[h]) >= 2 =>
            \A k \in 1..Len(uses[h]) :
                /\ uploaded[h].v = uses[h][k]
                /\ uploaded[h].i = uses[h][k]

\* The owners of the controller: the widget and the payload.
Owners(widget, callback) ==
    (IF widget \in {"constructing", "live"} THEN 1 ELSE 0)
        + (IF callback # "none" THEN 1 ELSE 0)

\* C19: the re-entrancy guard is taken by registering a payload and released
\* exactly when that payload is dropped: a draw panics if and only if a
\* payload of an earlier draw is still alive, and a draw that finds the
\* earlier payload dropped proceeds and advances the engine exactly once.
C19_GuardFollowsPayload ==
    [][/\ strong' = Owners(spine', payload')
       /\ Ui =>
             /\ panicked' = "reentrant" <=> payload # "none"
             /\ payload = "none" =>
                   /\ panicked' = "none"
                   /\ clock' = 1 - clock
                   /\ payload' = "registered"]_vars

\* The second draw of a widget, after the first draw's payload was painted
\* and dropped, went through.
C19_Witness ==
    /\ panicked = "none"
    /\ spine = "live"
    /\ payload = "registered"
    /\ strong = 2
    /\ clock = 0

\* C20: paint does not panic on a batch whose indices are all below its
\* vertex count: a batch with vertices and an empty index list does not
\* reach the panic of nonzero(), and no mesh's renderer_object is borrowed
\* twice.
C20_PaintNeverPanics ==
    panicked \notin {"nonzero", "borrowed"}

====
